---- MODULE Spec2Model ----
(***************************************************************************)
(* The directory-watch multiplexer of package fs (src/fs/fs.go):           *)
(* ReadDirectory with an onChange callback, its removePath closure, the    *)
(* stopWatching callback, the client's disconnect hooks, and the two loops *)
(* of startWatcher.                                                        *)
(*                                                                         *)
(* Two specifications are given.  Spec starts where the process starts:    *)
(* the registry watchCallbacks is empty and no watcher runs.  In Go a      *)
(* lookup of a missing key yields a nil inner map, and line 82 assigns     *)
(* into it, which panics; so from process start no request ever stores a   *)
(* path in the registry and the mutex taken at line 72 is never released.  *)
(* SpecWatching runs the same handlers from a registry that already holds  *)
(* subscriptions (each with its disconnect hook and stopWatching handle),  *)
(* which is where the remaining code of the handlers - a subscribe to a    *)
(* path that is present, removePath, the event dispatch - executes.        *)
(* SpecHandlers adds the argument check of every handler of the package to *)
(* Spec, and SpecFair is Spec with the scheduling of the goroutines.       *)
(***************************************************************************)
EXTENDS Integers, Sequences, FiniteSets, TLC

\* ---------------------------------------------------------------- bounds
MaxInputs == 2         \* requests, stopWatching calls, disconnects and OS
                       \* events in one behaviour

\* ---------------------------------------------------------------- values
Clients == {"c1", "c2", "c3"}
\* r.Username: the caller identity of a client; c1 and c2 are two
\* connections of the same user.
Username(c) == IF c = "c3" THEN "bob" ELSE "alice"
\* Paths are sequences of components: <<"d">> is /d, <<"d","f">> is /d/f.
Paths == {<<"d">>, <<"d", "f">>}
\* Request identities: one per request of a behaviour, and one per path for
\* the subscriptions SpecWatching starts with.
Requests == 1 .. (MaxInputs + Cardinality(Paths))
NoPath == << >>
Ops == {"Create", "Remove", "Rename", "Write"}
TdKinds == {"stop", "hook"}
Teardowns == Requests \X TdKinds

\* path.Dir of a clean absolute path: drop the last component.
Dir(name) == IF Len(name) = 0 THEN name ELSE SubSeq(name, 1, Len(name) - 1)
\* path.Base of a clean absolute path: its last component.
Base(name) == IF Len(name) = 0 THEN "/" ELSE name[Len(name)]

\* Go maps as functions on the set of their keys.
EmptyMap == [k \in {} |-> 0]
MapPut(m, k, v) == [x \in (DOMAIN m) \cup {k} |-> IF x = k THEN v ELSE m[x]]
MapDelete(m, k) == [x \in (DOMAIN m) \ {k} |-> m[x]]

VARIABLES
  pc,              \* position of each ReadDirectory request
  req,             \* its params.Path and r.Client
  userCallbacks,   \* its local userCallbacks: "nil" or "map" (a reference)
  mu,              \* the registry mutex is locked
  watchCallbacks,  \* path -> (username -> the request whose changer is stored)
  onceCalls,       \* goroutines spawned by "go once.Do(onceBody)"
  started,         \* startWatcher has run: the watcher and both loops exist
  watchers,        \* runs of startWatcher: watchers created, pairs of loops started
  pathLoop,        \* the newPaths/oldPaths loop of startWatcher
  osWatch,         \* paths the OS watcher watches (watcher.Add succeeded)
  issued,          \* paths with an add sent and no remove sent after it
  adds,            \* adds sent for a path since the last remove sent for it
  addFailed,       \* paths whose latest watcher.Add returned an error
  events,          \* watcher.Events
  evCount,         \* events emitted so far
  evLoop,          \* the event loop of startWatcher
  calls,           \* the calls of params.OnChange.Call, in order
  eventType,       \* the eventType variable of each request's changer
  fileEntry,       \* the fileEntry variable of each request's changer
  connected,       \* the client's connection is up
  hooks,           \* r.Client.OnDisconnect: requests whose removePath is hooked
  stopHandles,     \* requests whose stopWatching callback the client received
  tdPc,            \* position of each run of removePath
  nSeeded,         \* subscriptions the behaviour started with
  inputs,          \* requests, stopWatching calls, disconnects, OS events so far
  handled,         \* the latest request a handler answered at its argument check
  live             \* <<path, user>>: a subscribe step finished for them and no
                   \* removePath for them ran since

vars == <<pc, req, userCallbacks, mu, watchCallbacks, onceCalls, started, watchers,
          pathLoop, osWatch, issued, adds, addFailed, events, evCount, evLoop,
          calls, eventType, fileEntry, connected, hooks, stopHandles, tdPc, nSeeded,
          inputs, handled, live>>

reqVars == <<pc, req, userCallbacks>>
watcherVars == <<pathLoop, osWatch, addFailed>>
histVars == <<issued, adds, live>>
eventVars == <<events, evCount, evLoop, calls, eventType, fileEntry>>
clientVars == <<connected, hooks, stopHandles, tdPc, nSeeded, inputs, handled>>

NoRequest == [client |-> "c1", path |-> NoPath]
PathOf(r) == req[r].path
UserOf(r) == Username(req[r].client)

\* c1 and c2 differ in name only: c2 is the second of them to send a request.
FirstUse(c) ==
  c = "c2" => \E q \in Requests : pc[q] # "idle" /\ req[q].client = "c1"


\* ------------------------------------------------------ ReadDirectory
\* Lines 27-46: a request with a path and a valid onChange arrives from a
\* connected client; it spawns "go once.Do(onceBody)" and goes on to the
\* subscribe step.  (A request without onChange skips lines 45-116 and
\* touches none of the state below; it is not followed.)  Requests are
\* numbered in the order they arrive.
ReadDirectory(r, c, p) ==
  /\ pc[r] = "idle"
  /\ \A q \in Requests : q < r => pc[q] # "idle"
  /\ inputs < MaxInputs
  /\ FirstUse(c)
  /\ connected[c]
  /\ req' = [req EXCEPT ![r] = [client |-> c, path |-> p]]
  /\ pc' = [pc EXCEPT ![r] = "lock"]
  /\ onceCalls' = onceCalls + 1
  /\ inputs' = inputs + 1
  /\ UNCHANGED <<userCallbacks, mu, watchCallbacks, started, watchers, watcherVars,
                 histVars, eventVars, connected, hooks, stopHandles, tdPc,
                 nSeeded, handled>>

\* A subscribe that sends every path to the watcher.
PathIsNew_Always(p) == TRUE

\* Line 73-74: "userCallbacks, ok := watchCallbacks[params.Path]; if !ok".
PathIsNew(p) == p \notin DOMAIN watchCallbacks

\* Lines 72-74: mu.Lock() and the lookup.  A missing key yields the zero
\* value of the inner map type, a nil map.
SubscribeLock(r) ==
  /\ pc[r] = "lock"
  /\ ~mu
  /\ mu' = TRUE
  /\ userCallbacks' = [userCallbacks EXCEPT
       ![r] = IF PathOf(r) \in DOMAIN watchCallbacks THEN "map" ELSE "nil"]
  /\ pc' = [pc EXCEPT ![r] = IF PathIsNew(PathOf(r)) THEN "sendNew" ELSE "insert"]
  /\ UNCHANGED <<req, watchCallbacks, onceCalls, started, watchers, watcherVars,
                 histVars, eventVars, clientVars>>

\* Line 76 with line 137: "newPaths <- params.Path" on the unbuffered
\* channel completes when the path loop receives it; mu stays locked.
SendNewPath(r) ==
  /\ pc[r] = "sendNew"
  /\ started
  /\ pathLoop.pc = "select"
  /\ pathLoop' = [pc |-> "add", path |-> PathOf(r)]
  /\ issued' = issued \cup {PathOf(r)}
  /\ adds' = [adds EXCEPT ![PathOf(r)] = @ + 1]
  /\ pc' = [pc EXCEPT ![r] = "insert"]
  /\ UNCHANGED <<req, userCallbacks, mu, watchCallbacks, onceCalls, started, watchers,
                 osWatch, addFailed, live, eventVars, clientVars>>

\* An assignment that allocates the inner map instead of panicking.
AssignPanics_Never(uc) == FALSE

\* Line 82 on the map the lookup returned: an assignment to an entry of a
\* nil map is a run-time panic.
AssignPanics(uc) == uc = "nil"

\* Lines 80-84: the changer is stored only when the user has no entry.
Stored(m, u, r) == IF u \in DOMAIN m THEN m ELSE MapPut(m, u, r)

\* Lines 80-85.  When userCallbacks is nil the read at line 80 finds nothing
\* and the assignment at line 82 panics: the request ends there (the RPC
\* layer recovers the panic of a handler) and mu.Unlock() at line 85 is
\* never reached.  Otherwise the inner map is the one in the registry.
StoreCallback(r) ==
  /\ pc[r] = "insert"
  /\ IF AssignPanics(userCallbacks[r])
       THEN /\ pc' = [pc EXCEPT ![r] = "panicked"]
            /\ UNCHANGED <<mu, watchCallbacks, live>>
       ELSE /\ pc' = [pc EXCEPT ![r] = "hook"]
            /\ live' = live \cup {<<PathOf(r), UserOf(r)>>}
            /\ watchCallbacks' =
                 LET m == IF PathOf(r) \in DOMAIN watchCallbacks
                            THEN watchCallbacks[PathOf(r)] ELSE EmptyMap
                 IN  MapPut(watchCallbacks, PathOf(r), Stored(m, UserOf(r), r))
            /\ mu' = FALSE
  /\ UNCHANGED <<req, userCallbacks, onceCalls, started, watchers, watcherVars,
                 issued, adds, eventVars, clientVars>>

\* Lines 110-124: r.Client.OnDisconnect(removePath) hooks the closure on
\* the client; then readDirectory succeeds, and the response with
\* stopWatching reaches the client, or it fails and only the error is
\* returned.  The listing reads and writes nothing that another step uses.
OnDisconnect(r) ==
  /\ pc[r] = "hook"
  /\ hooks' = [hooks EXCEPT ![req[r].client] = @ \cup {r}]
  /\ \E ok \in BOOLEAN :
       /\ pc' = [pc EXCEPT ![r] = IF ok THEN "done" ELSE "failed"]
       /\ stopHandles' = IF ok THEN stopHandles \cup {r} ELSE stopHandles
  /\ UNCHANGED <<req, userCallbacks, mu, watchCallbacks, onceCalls, started, watchers,
                 watcherVars, histVars, eventVars, connected, tdPc, nSeeded, handled,
                 inputs>>

\* ------------------------------------------------------ startWatcher
\* A startWatcher that every "go once.Do(onceBody)" runs.
startWatcher_PerCall ==
  /\ watchers < onceCalls
  /\ started' = TRUE
  /\ watchers' = watchers + 1
  /\ UNCHANGED <<reqVars, mu, watchCallbacks, onceCalls, watcherVars,
                 histVars, eventVars, clientVars>>

\* Lines 45-46 and 127-134: the first once.Do runs startWatcher, which
\* creates the watcher and starts the path loop and the event loop.
startWatcher ==
  /\ onceCalls > 0
  /\ ~started
  /\ started' = TRUE
  /\ watchers' = watchers + 1
  /\ UNCHANGED <<reqVars, mu, watchCallbacks, onceCalls, watcherVars,
                 histVars, eventVars, clientVars>>

\* Lines 138-141: watcher.Add(p); an error is logged and nothing else.
WatcherAdd ==
  /\ pathLoop.pc = "add"
  /\ \E ok \in BOOLEAN :
       /\ osWatch' = IF ok THEN osWatch \cup {pathLoop.path} ELSE osWatch
       /\ addFailed' = IF ok THEN addFailed \ {pathLoop.path}
                             ELSE addFailed \cup {pathLoop.path}
  /\ pathLoop' = [pc |-> "select", path |-> NoPath]
  /\ UNCHANGED <<reqVars, mu, watchCallbacks, onceCalls, started, watchers, histVars,
                 eventVars, clientVars>>

\* Lines 143-146: watcher.Remove(p); an error (the path is not watched) is
\* logged and nothing else.
WatcherRemove ==
  /\ pathLoop.pc = "remove"
  /\ osWatch' = osWatch \ {pathLoop.path}
  /\ pathLoop' = [pc |-> "select", path |-> NoPath]
  /\ UNCHANGED <<reqVars, mu, watchCallbacks, onceCalls, started, watchers, addFailed,
                 histVars, eventVars, clientVars>>


\* ------------------------------------------------------ removePath
\* Lines 113-115: the client calls the stopWatching callback it received.
StopWatching(r) ==
  /\ r \in stopHandles
  /\ connected[req[r].client]
  /\ tdPc[<<r, "stop">>] = "idle"
  /\ inputs < MaxInputs
  /\ tdPc' = [tdPc EXCEPT ![<<r, "stop">>] = "lock"]
  /\ inputs' = inputs + 1
  /\ UNCHANGED <<reqVars, mu, watchCallbacks, onceCalls, started, watchers, watcherVars,
                 histVars, eventVars, connected, hooks, stopHandles, nSeeded, handled>>

\* The client's connection goes down: the removePath closures hooked on it
\* so far are run.  A closure hooked later is never run.  Only clients that
\* have sent a request are followed.
Disconnect(c) ==
  /\ connected[c]
  /\ \E r \in Requests : pc[r] # "idle" /\ req[r].client = c
  /\ inputs < MaxInputs
  /\ inputs' = inputs + 1
  /\ connected' = [connected EXCEPT ![c] = FALSE]
  /\ tdPc' = [t \in Teardowns |->
       IF t[2] = "hook" /\ t[1] \in hooks[c] THEN "lock" ELSE tdPc[t]]
  /\ UNCHANGED <<reqVars, mu, watchCallbacks, onceCalls, started, watchers, watcherVars,
                 histVars, eventVars, hooks, stopHandles, nSeeded, handled>>

\* Line 93: delete(userCallbacks, r.Username).
DeleteUser(m, u) == MapDelete(m, u)

\* A teardown that never finds the inner map empty.
NoUserLeft_Never(m) == FALSE

\* A teardown that drops the path whoever is left.
NoUserLeft_Always(m) == TRUE

\* Line 99: len(userCallbacks) == 0.
NoUserLeft(m) == DOMAIN m = {}

\* removePath without the "if ok" of line 91: on a missing path the delete of
\* line 93 and the delete of line 102 do nothing, the nil map has length 0,
\* and the path is sent on oldPaths.
RemovePath_NoOkCheck(t) ==
  LET p == PathOf(t[1])
      u == UserOf(t[1])
      m == IF p \in DOMAIN watchCallbacks
             THEN MapDelete(watchCallbacks[p], u) ELSE EmptyMap
  IN  /\ tdPc[t] = "lock"
      /\ ~mu
      /\ IF DOMAIN m = {}
           THEN /\ watchCallbacks' = MapDelete(watchCallbacks, p)
                /\ mu' = TRUE
                /\ tdPc' = [tdPc EXCEPT ![t] = "sendOld"]
           ELSE /\ watchCallbacks' = MapPut(watchCallbacks, p, m)
                /\ mu' = FALSE
                /\ tdPc' = [tdPc EXCEPT ![t] = "done"]
      /\ live' = live \ {<<p, u>>}
      /\ UNCHANGED <<reqVars, onceCalls, started, watchers, watcherVars, issued, adds,
                     eventVars, connected, hooks, stopHandles, nSeeded, handled, inputs>>

\* removePath without the send of line 103: the path leaves the registry and
\* the watcher is not told.
RemovePath_NoSend(t) ==
  LET p == PathOf(t[1])
      u == UserOf(t[1])
  IN  /\ tdPc[t] = "lock"
      /\ ~mu
      /\ IF p \notin DOMAIN watchCallbacks
           THEN UNCHANGED watchCallbacks
           ELSE LET m == MapDelete(watchCallbacks[p], u)
                IN  watchCallbacks' = IF DOMAIN m = {}
                                        THEN MapDelete(watchCallbacks, p)
                                        ELSE MapPut(watchCallbacks, p, m)
      /\ tdPc' = [tdPc EXCEPT ![t] = "done"]
      /\ live' = live \ {<<p, u>>}
      /\ UNCHANGED <<reqVars, mu, onceCalls, started, watchers, watcherVars, issued, adds,
                     eventVars, connected, hooks, stopHandles, nSeeded, handled, inputs>>

\* Lines 88-102 and, when nothing is sent, line 106: mu.Lock(), the lookup
\* of the closure's path, the delete of the closure's user, and, when no
\* user is left, the delete of the path; the send of line 103 comes next,
\* with mu still locked.
RemovePath(t) ==
  LET p == PathOf(t[1])
      u == UserOf(t[1])
  IN  /\ tdPc[t] = "lock"
      /\ ~mu
      /\ IF p \notin DOMAIN watchCallbacks
           THEN /\ tdPc' = [tdPc EXCEPT ![t] = "done"]
                /\ UNCHANGED <<mu, watchCallbacks>>
           ELSE LET m == DeleteUser(watchCallbacks[p], u)
                IN  IF NoUserLeft(m)
                      THEN /\ watchCallbacks' = MapDelete(watchCallbacks, p)
                           /\ mu' = TRUE
                           /\ tdPc' = [tdPc EXCEPT ![t] = "sendOld"]
                      ELSE /\ watchCallbacks' = MapPut(watchCallbacks, p, m)
                           /\ mu' = FALSE
                           /\ tdPc' = [tdPc EXCEPT ![t] = "done"]
      /\ live' = live \ {<<p, u>>}
      /\ UNCHANGED <<reqVars, onceCalls, started, watchers, watcherVars, issued, adds,
                     eventVars, connected, hooks, stopHandles, nSeeded, handled, inputs>>

\* Line 103 with line 142, then line 106: "oldPaths <- params.Path"
\* completes when the path loop receives it, and mu is unlocked.
SendOldPath(t) ==
  /\ tdPc[t] = "sendOld"
  /\ started
  /\ pathLoop.pc = "select"
  /\ pathLoop' = [pc |-> "remove", path |-> PathOf(t[1])]
  /\ issued' = issued \ {PathOf(t[1])}
  /\ adds' = [adds EXCEPT ![PathOf(t[1])] = 0]
  /\ mu' = FALSE
  /\ tdPc' = [tdPc EXCEPT ![t] = "done"]
  /\ UNCHANGED <<reqVars, watchCallbacks, onceCalls, started, watchers, osWatch,
                 addFailed, live, eventVars, connected, hooks, stopHandles,
                 nSeeded, handled, inputs>>

\* ------------------------------------------------------ the event loop
\* The OS layer reports an operation on a watched directory or on an entry
\* of it.
OSEvent ==
  /\ inputs < MaxInputs
  /\ \E w \in osWatch, op \in Ops :
     \E name \in {w, Append(w, "f")} :
       events' = Append(events, [op |-> op, name |-> name, id |-> evCount + 1])
  /\ evCount' = evCount + 1
  /\ inputs' = inputs + 1
  /\ UNCHANGED <<reqVars, mu, watchCallbacks, onceCalls, started, watchers, watcherVars,
                 histVars, evLoop, calls, eventType, fileEntry, connected, hooks,
                 stopHandles, tdPc, nSeeded, handled>>

NoEvent == [op |-> "Write", name |-> NoPath, id |-> 0]
\* "var fileEntry *FileEntry" of line 49: nil until a changer sets it.
NoEntry == [kind |-> "nil", base |-> "", path |-> NoPath]

\* A receive that takes the newest event of the queue.
EventReceive_Newest ==
  /\ started
  /\ evLoop.pc = "select"
  /\ events # << >>
  /\ evLoop' = [pc |-> "lock", event |-> events[Len(events)], f |-> NoPath,
                snap |-> EmptyMap, atLookup |-> EmptyMap]
  /\ events' = SubSeq(events, 1, Len(events) - 1)
  /\ UNCHANGED <<reqVars, mu, watchCallbacks, onceCalls, started, watchers, watcherVars,
                 histVars, evCount, calls, eventType, fileEntry, clientVars>>

\* Line 153: "case event := <-watcher.Events".
EventReceive ==
  /\ started
  /\ evLoop.pc = "select"
  /\ events # << >>
  /\ evLoop' = [pc |-> "lock", event |-> Head(events), f |-> NoPath, snap |-> EmptyMap,
                 atLookup |-> EmptyMap]
  /\ events' = Tail(events)
  /\ UNCHANGED <<reqVars, mu, watchCallbacks, onceCalls, started, watchers, watcherVars,
                 histVars, evCount, calls, eventType, fileEntry, clientVars>>

\* A lookup under the affected path itself.
EventKey_Leaf(event) == event.name

\* Line 156: the key the event loop looks up.
EventKey(event) == Dir(event.name)

\* What the registry holds under path.Dir(event.Name).
UnderParent(event) ==
  IF Dir(event.name) \in DOMAIN watchCallbacks
    THEN watchCallbacks[Dir(event.name)] ELSE EmptyMap

\* Lines 155-161: the lookup under mu; f is a reference to the inner map,
\* and snap is what that map holds when mu is released at line 157.
\* atLookup records the subscribers of the event's directory at that moment.
EventLookup ==
  /\ evLoop.pc = "lock"
  /\ ~mu
  /\ evLoop' = IF EventKey(evLoop.event) \in DOMAIN watchCallbacks
                 THEN [evLoop EXCEPT !.pc = "call", !.f = EventKey(evLoop.event),
                                     !.snap = watchCallbacks[EventKey(evLoop.event)],
                                     !.atLookup = UnderParent(evLoop.event)]
                 ELSE [pc |-> "select", event |-> NoEvent, f |-> NoPath, snap |-> EmptyMap,
                 atLookup |-> EmptyMap]
  /\ UNCHANGED <<reqVars, mu, watchCallbacks, onceCalls, started, watchers, watcherVars,
                 histVars, events, evCount, calls, eventType, fileEntry, clientVars>>

\* A switch that sets eventType only while it is empty.
Changed_Sticky(old, op) ==
  IF old # "" THEN old
  ELSE CASE op = "Create" -> "added"
         [] op \in {"Remove", "Rename"} -> "removed"
         [] OTHER -> old

\* Lines 52-59: the switch of changer on ev.Op; the variable eventType of
\* the enclosing request keeps its value when no case matches.
Changed(old, op) ==
  CASE op = "Create" -> "added"
    [] op \in {"Remove", "Rename"} -> "removed"
    [] OTHER -> old

\* Lines 55 and 58: the entry the switch of changer leaves in fileEntry.
\* getInfo(ev.Name) is the get-info entry of the affected path, and
\* NewFileEntry(path.Base(ev.Name), ev.Name) carries the base name and the
\* path; fileEntry keeps its value when no case matches.
Entry(old, ev) ==
  CASE ev.op = "Create" -> [kind |-> "info", base |-> Base(ev.name), path |-> ev.name]
    [] ev.op \in {"Remove", "Rename"} ->
         [kind |-> "synthetic", base |-> Base(ev.name), path |-> ev.name]
    [] OTHER -> old

\* The inner map f refers to.  removePath deletes a path from the registry
\* only when its inner map is empty, and no empty map is stored again, so a
\* map that left the registry reads as empty.
Deref(f) == IF f \in DOMAIN watchCallbacks THEN watchCallbacks[f] ELSE EmptyMap

\* The sequences that list every element of S once.
Orders(S) == {o \in [1 .. Cardinality(S) -> S] : \A x \in S : \E i \in DOMAIN o : o[i] = x}

\* The changers line 163 can reach.  The map is read after mu.Unlock() of
\* line 157, with no lock held, while subscribes and removePath runs write
\* it: a changer read from the map before a removePath deleted it is still
\* called after that removePath returned, and a changer stored after the
\* lookup is called or missed.  The read yields the map as it is now or as it
\* was at the lookup.
Reached(loop) == {Deref(loop.f), loop.snap}

\* Line 163, "f(event)", with lines 51-69: f is the inner map of the
\* event's directory; each changer in it is called with the event, in the
\* order the map yields them, runs its switch and calls
\* params.OnChange.Call with its eventType and fileEntry.
EventCall ==
  /\ evLoop.pc = "call"
  /\ \E m \in Reached(evLoop) :
       LET ev == evLoop.event
       IN  /\ \E o \in Orders(DOMAIN m) :
                 calls' = calls \o
                   [i \in 1 .. Len(o) |->
                      [event |-> ev.id, user |-> o[i], callback |-> m[o[i]],
                       class |-> Changed(eventType[m[o[i]]], ev.op),
                       file |-> Entry(fileEntry[m[o[i]]], ev)]]
           /\ eventType' = [r \in Requests |->
                 IF \E u \in DOMAIN m : m[u] = r
                   THEN Changed(eventType[r], ev.op) ELSE eventType[r]]
           /\ fileEntry' = [r \in Requests |->
                 IF \E u \in DOMAIN m : m[u] = r
                   THEN Entry(fileEntry[r], ev) ELSE fileEntry[r]]
  /\ evLoop' = [pc |-> "select", event |-> NoEvent, f |-> NoPath, snap |-> EmptyMap,
                 atLookup |-> EmptyMap]
  /\ UNCHANGED <<reqVars, mu, watchCallbacks, onceCalls, started, watchers, watcherVars,
                 histVars, events, evCount, clientVars>>


\* ------------------------------------------------------ argument checks
\* The handlers of the package (lines 27, 172, 184, 203, 212, 224, 242, 257,
\* 274, 292, 310, 328).
Handlers == {"ReadDirectory", "Glob", "ReadFile", "WriteFile", "UniquePath",
             "GetInfo", "SetPermissions", "Remove", "Rename", "CreateDirectory",
             "Move", "Copy"}

\* A check that looks at the first of the fields only.
Required_FirstOnly(h) ==
  CASE h = "Glob" -> {"pattern"}
    [] h \in {"Rename", "Move"} -> {"oldPath"}
    [] h = "Copy" -> {"srcPath"}
    [] OTHER -> {"path"}

\* The fields each handler compares with "" after Unmarshal (lines 37, 177,
\* 189, 205, 217, 229, 245, 263, 280, 298, 316, 334).
Required(h) ==
  CASE h = "Glob" -> {"pattern"}
    [] h \in {"Rename", "Move"} -> {"oldPath", "newPath"}
    [] h = "Copy" -> {"srcPath", "dstPath"}
    [] OTHER -> {"path"}

\* The string fields of the params structs that name a path or a pattern
\* (lines 28-31, 173-175, 185-187, 196-201, ..., 329-332).
Fields == {"path", "pattern", "oldPath", "newPath", "srcPath", "dstPath"}
Schema(h) ==
  CASE h = "Glob" -> {"pattern"}
    [] h \in {"Rename", "Move"} -> {"oldPath", "newPath"}
    [] h = "Copy" -> {"srcPath", "dstPath"}
    [] OTHER -> {"path"}

\* A first argument: Unmarshal succeeds or not, and the fields that are
\* non-empty in params after it.
Args == [decodes : BOOLEAN, given : SUBSET Fields]
NoHandled == [n |-> 0, handler |-> "", args |-> [decodes |-> FALSE, given |-> {}],
              reply |-> ""]

\* "r.Args.One().Unmarshal(&params) != nil || params.X == \"\"".
Rejects(h, a) == ~a.decodes \/ \E f \in Required(h) : f \notin a.given

\* The argument check of a handler and what follows it: the error return
\* with the schema message (lines 38-39, 178, 190, ...), or the call of the
\* handler's primitive (lines 118, 181, 193, ...).  A ReadDirectory request
\* that passes the check with a valid onChange is the action ReadDirectory
\* above.  An argument carries the fields of its handler's schema.
Handle(h, a) ==
  /\ inputs < MaxInputs
  /\ a.given \subseteq Schema(h)
  /\ inputs' = inputs + 1
  /\ handled' = [n |-> handled.n + 1, handler |-> h, args |-> a,
                 reply |-> IF Rejects(h, a) THEN "bad-arguments" ELSE "primitive"]
  /\ UNCHANGED <<reqVars, mu, watchCallbacks, onceCalls, started, watchers,
                 watcherVars, histVars, eventVars, connected, hooks,
                 stopHandles, tdPc, nSeeded>>


\* ------------------------------------------------------ specifications
\* The state at process start (lines 17-25).
Init ==
  /\ pc = [r \in Requests |-> "idle"]
  /\ req = [r \in Requests |-> NoRequest]
  /\ userCallbacks = [r \in Requests |-> "nil"]
  /\ mu = FALSE
  /\ watchCallbacks = EmptyMap
  /\ onceCalls = 0
  /\ started = FALSE
  /\ watchers = 0
  /\ pathLoop = [pc |-> "select", path |-> NoPath]
  /\ osWatch = {}
  /\ issued = {}
  /\ adds = [p \in Paths |-> 0]
  /\ addFailed = {}
  /\ events = << >>
  /\ evCount = 0
  /\ evLoop = [pc |-> "select", event |-> NoEvent, f |-> NoPath, snap |-> EmptyMap,
                 atLookup |-> EmptyMap]
  /\ calls = << >>
  /\ eventType = [r \in Requests |-> ""]
  /\ fileEntry = [r \in Requests |-> NoEntry]
  /\ connected = [c \in Clients |-> TRUE]
  /\ hooks = [c \in Clients |-> {}]
  /\ stopHandles = {}
  /\ tdPc = [t \in Teardowns |-> "idle"]
  /\ nSeeded = 0
  /\ inputs = 0
  /\ handled = NoHandled
  /\ live = {}

\* The steps that can happen from process start.
NextFromStart ==
  \/ \E r \in Requests, c \in Clients, p \in Paths : ReadDirectory(r, c, p)
  \/ \E r \in Requests : SubscribeLock(r)
  \/ \E r \in Requests : SendNewPath(r)
  \/ \E r \in Requests : StoreCallback(r)
  \/ \E c \in Clients : Disconnect(c)
  \/ startWatcher
  \/ WatcherAdd
  \/ OSEvent
  \/ EventReceive

Spec == Init /\ [][NextFromStart]_vars

\* The requests of every handler, with arguments that pass the check or not,
\* next to the subscribing requests.
NextHandlers ==
  \/ \E h \in Handlers, a \in Args : Handle(h, a)
  \/ NextFromStart

SpecHandlers == Init /\ [][NextHandlers]_vars

\* The scheduler runs every goroutine that can take a step: the handler
\* goroutines of the requests, the once.Do goroutine, the path loop and the
\* event loop.  Requests, disconnects and OS events need not come.
Fairness ==
  /\ \A r \in Requests :
       /\ WF_vars(SubscribeLock(r))
       /\ WF_vars(SendNewPath(r))
       /\ WF_vars(StoreCallback(r))
  /\ WF_vars(startWatcher)
  /\ WF_vars(WatcherAdd)
  /\ WF_vars(EventReceive)

SpecFair == Init /\ [][NextFromStart]_vars /\ Fairness

\* Every step of the handlers and loops.
Next ==
  \/ NextFromStart
  \/ \E r \in Requests : OnDisconnect(r)
  \/ \E r \in Requests : StopWatching(r)
  \/ \E t \in Teardowns : RemovePath(t)
  \/ \E t \in Teardowns : SendOldPath(t)
  \/ WatcherRemove
  \/ EventLookup
  \/ EventCall

\* Subscriptions made earlier: requests 1..n, each by some client for some
\* path, all returned with their stopWatching handle and hooked on their
\* client.  The registry holds, per path and user, the changer of the first
\* of them (lines 80-84), and the watcher watches exactly those paths.  The
\* numbering of requests carries no meaning, so they are listed by path.
SeedUsers(seed, p) ==
  {Username(seed[i].client) : i \in {j \in DOMAIN seed : seed[j].path = p}}
SeedFirst(seed, p, u) ==
  CHOOSE i \in DOMAIN seed :
    /\ seed[i].path = p /\ Username(seed[i].client) = u
    /\ \A j \in DOMAIN seed :
         (seed[j].path = p /\ Username(seed[j].client) = u) => i <= j
SeedPaths(seed) == {seed[i].path : i \in DOMAIN seed}
Seeds ==
  {seed \in UNION {[1 .. n -> [client : Clients, path : Paths]] :
                     n \in 0 .. Cardinality(Paths)} :
     /\ \A i, j \in DOMAIN seed : i < j => Len(seed[i].path) <= Len(seed[j].path)
     /\ \A i \in DOMAIN seed :
          seed[i].client = "c2" => \E j \in 1 .. i - 1 : seed[j].client = "c1"}

InitWatching ==
  \E seed \in Seeds :
    /\ pc = [r \in Requests |-> IF r \in DOMAIN seed THEN "done" ELSE "idle"]
    /\ req = [r \in Requests |-> IF r \in DOMAIN seed THEN seed[r] ELSE NoRequest]
    /\ userCallbacks = [r \in Requests |-> "nil"]
    /\ mu = FALSE
    /\ watchCallbacks =
         [p \in SeedPaths(seed) |->
            [u \in SeedUsers(seed, p) |-> SeedFirst(seed, p, u)]]
    /\ onceCalls = Len(seed)
    /\ started = (Len(seed) > 0)
    /\ watchers = IF Len(seed) > 0 THEN 1 ELSE 0
    /\ pathLoop = [pc |-> "select", path |-> NoPath]
    /\ osWatch = SeedPaths(seed)
    /\ issued = SeedPaths(seed)
    /\ adds = [p \in Paths |-> IF p \in SeedPaths(seed) THEN 1 ELSE 0]
    /\ addFailed = {}
    /\ events = << >>
    /\ evCount = 0
    /\ evLoop = [pc |-> "select", event |-> NoEvent, f |-> NoPath, snap |-> EmptyMap,
                 atLookup |-> EmptyMap]
    /\ calls = << >>
    /\ eventType = [r \in Requests |-> ""]
    /\ fileEntry = [r \in Requests |-> NoEntry]
    /\ connected = [c \in Clients |-> TRUE]
    /\ hooks = [c \in Clients |->
                  {i \in DOMAIN seed : seed[i].client = c}]
    /\ stopHandles = DOMAIN seed
    /\ tdPc = [t \in Teardowns |-> "idle"]
    /\ nSeeded = Len(seed)
    /\ inputs = 0
    /\ handled = NoHandled
    /\ live = {<<seed[i].path, Username(seed[i].client)>> : i \in DOMAIN seed}

SpecWatching == InitWatching /\ [][Next]_vars


\* ------------------------------------------------------ properties
Keys == DOMAIN watchCallbacks

\* C1: in every state in which the registry mutex is free, after any
\* sequence of subscribe, stop-callback and disconnect operations, a path is
\* a key of the registry iff an OS add was sent for it and no OS remove was
\* sent after that add.
C1_RegistryIffOSWatch == ~mu => Keys = issued

\* The mutex is free after a stopWatching call took the last subscriber of
\* one path away (its remove was sent) and a request subscribed to another
\* path that stays in the registry.
C1_Witness ==
  \E r, q \in Requests :
    /\ tdPc[<<r, "stop">>] = "done"
    /\ PathOf(r) \notin Keys /\ PathOf(r) \notin issued
    /\ q > nSeeded /\ pc[q] = "done"
    /\ PathOf(q) \in Keys /\ PathOf(q) \in issued
    /\ ~mu

C3_SubscribeStoresEntry ==
  [][\A r \in Requests :
       (pc[r] = "insert" /\ pc'[r] # "insert") =>
          /\ PathOf(r) \in DOMAIN watchCallbacks'
          /\ UserOf(r) \in DOMAIN watchCallbacks'[PathOf(r)]]_vars

C5_OneAddPerWatch ==
  \A p \in Paths :
    /\ adds[p] <= 1
    /\ p \in Keys => adds[p] = 1

\* Two requests, of different callers, finished their subscribe step for a
\* path that was in the registry, and the path has had its one add only.
C5_Witness ==
  \E r, q \in Requests :
    /\ r > nSeeded /\ q > nSeeded
    /\ UserOf(r) # UserOf(q)
    /\ PathOf(r) = PathOf(q)
    /\ pc[r] \in {"hook", "done", "failed"}
    /\ pc[q] \in {"hook", "done", "failed"}
    /\ adds[PathOf(r)] = 1


\* The inner map of path p without user u.
Without(p, u) ==
  [x \in (DOMAIN watchCallbacks[p]) \ {u} |-> watchCallbacks[p][x]]

\* What the registry step of the removePath run t (lines 88-102) does.
C6_Step(t) ==
  LET p == PathOf(t[1])
      u == UserOf(t[1])
  IN  (tdPc[t] = "lock" /\ tdPc'[t] # "lock" /\ p \in Keys) =>
        IF DOMAIN Without(p, u) # {}
          THEN /\ watchCallbacks' = [watchCallbacks EXCEPT ![p] = Without(p, u)]
               /\ tdPc'[t] = "done"
               /\ pathLoop' = pathLoop /\ issued' = issued
               /\ ~mu'
          ELSE /\ DOMAIN watchCallbacks' = Keys \ {p}
               /\ \A q \in Keys \ {p} : watchCallbacks'[q] = watchCallbacks[q]
               /\ tdPc'[t] = "sendOld"
               /\ pathLoop' = pathLoop /\ issued' = issued
               /\ mu'

\* While the run t waits to send on oldPaths the registry does not change,
\* and the run ends by handing exactly its path to the path loop as a remove
\* and unlocking.
C6_Send(t) ==
  tdPc[t] = "sendOld" =>
    /\ watchCallbacks' = watchCallbacks
    /\ \A r \in Requests : pc[r] \in {"sendNew", "insert"} <=> pc'[r] \in {"sendNew", "insert"}
    /\ \/ tdPc'[t] = "sendOld" /\ mu' /\ issued' = issued
       \/ /\ tdPc'[t] = "done" /\ ~mu'
          /\ pathLoop.pc = "select"
          /\ pathLoop' = [pc |-> "remove", path |-> PathOf(t[1])]
          /\ issued' = issued \ {PathOf(t[1])}

\* C6: a teardown of (path, caller) takes only that caller out of the path's
\* inner mapping.  If other callers remain, the path stays with exactly
\* them and no OS remove is sent; if the caller was the last, the path
\* leaves the registry and exactly one OS remove for it is sent, under the
\* same lock acquisition: mu stays locked from the delete to the send, no
\* subscribe is inside its critical section meanwhile, and a remove is sent
\* by no other step.
C6_TeardownRemovesOnlyCaller ==
  /\ [](\A t \in Teardowns : tdPc[t] = "sendOld" =>
          /\ mu
          /\ \A r \in Requests : pc[r] \notin {"sendNew", "insert"}
          /\ \A t2 \in Teardowns : tdPc[t2] = "sendOld" => t2 = t)
  /\ [][/\ \A t \in Teardowns : C6_Step(t) /\ C6_Send(t)
        /\ (pathLoop'.pc = "remove" /\ pathLoop.pc # "remove") =>
              \E t \in Teardowns : tdPc[t] = "sendOld" /\ tdPc'[t] = "done"]_vars

\* A removePath run took one caller out of a path on which another caller
\* stays subscribed.
C6_Witness ==
  \E t \in Teardowns :
    /\ tdPc[t] = "done"
    /\ t[1] <= nSeeded
    /\ PathOf(t[1]) \in Keys
    /\ UserOf(t[1]) \notin DOMAIN watchCallbacks[PathOf(t[1])]
    /\ DOMAIN watchCallbacks[PathOf(t[1])] # {}
    /\ pathLoop.pc = "select"

C9_TeardownIdempotent ==
  [][\A t \in Teardowns :
       (/\ tdPc[t] = "lock" /\ tdPc'[t] # "lock"
        /\ (PathOf(t[1]) \in Keys => UserOf(t[1]) \notin DOMAIN watchCallbacks[PathOf(t[1])])) =>
          /\ watchCallbacks' = watchCallbacks
          /\ osWatch' = osWatch /\ issued' = issued /\ pathLoop' = pathLoop
          /\ tdPc'[t] = "done"
          /\ ~mu']_vars

\* Both the stopWatching call and the disconnect hook of one request ran,
\* the later of them on a path that another caller keeps in the registry.
C9_Witness ==
  \E r \in Requests :
    /\ tdPc[<<r, "stop">>] = "done"
    /\ tdPc[<<r, "hook">>] = "done"
    /\ PathOf(r) \in Keys

\* The subscribers registered under the directory of an affected path.
Subscribers(name) ==
  IF Dir(name) \in Keys THEN watchCallbacks[Dir(name)] ELSE EmptyMap

\* The calls a step adds are one call per entry of subs, each of that
\* subscriber's callback for the event ev, and no other call.
C10_Exactly(subs, ev) ==
  LET new == SubSeq(calls', Len(calls) + 1, Len(calls'))
  IN  /\ SubSeq(calls', 1, Len(calls)) = calls
      /\ Len(new) = Cardinality(DOMAIN subs)
      /\ \A u \in DOMAIN subs : \E i \in DOMAIN new :
           /\ new[i].user = u
           /\ new[i].callback = subs[u]
           /\ new[i].event = ev.id

NewCalls == SubSeq(calls', Len(calls) + 1, Len(calls'))

C13_OneWatcher ==
  /\ watchers <= 1
  /\ started <=> watchers = 1
  /\ onceCalls = 0 => watchers = 0
  /\ (issued # {} \/ pathLoop.pc # "select") => watchers = 1

\* Two requests each spawned "go once.Do(onceBody)" before the watcher
\* existed, and a path was handed to the one watcher.
C13_Witness ==
  /\ onceCalls >= 2
  /\ watchers = 1
  /\ issued # {}
  /\ \E r, q \in Requests : r # q /\ pc[r] # "idle" /\ pc[q] # "idle"

C15_CallsInEventOrder ==
  \A i, j \in DOMAIN calls :
    (i < j /\ calls[i].callback = calls[j].callback) =>
       calls[i].event < calls[j].event

\* One callback was called for two events.
C15_Witness ==
  \E i, j \in DOMAIN calls :
    /\ i < j
    /\ calls[i].callback = calls[j].callback
    /\ calls[i].event # calls[j].event

\* The required fields of each handler.
C16_RequiredFields(h) ==
  CASE h \in {"ReadDirectory", "ReadFile", "WriteFile", "UniquePath", "GetInfo",
              "SetPermissions", "Remove", "CreateDirectory"} -> {"path"}
    [] h = "Glob" -> {"pattern"}
    [] h \in {"Rename", "Move"} -> {"oldPath", "newPath"}
    [] h = "Copy" -> {"srcPath", "dstPath"}

\* C16: a request whose first argument fails to decode or lacks a required
\* field is answered with the bad-arguments error; its primitive is not
\* called, and the registry, the requests inside the subscribe step and the
\* paths handed to the OS watcher are as before.
C16_BadArgumentsRejected ==
  [][handled'.n # handled.n =>
       LET h == handled'.handler
           a == handled'.args
       IN  (~a.decodes \/ ~(C16_RequiredFields(h) \subseteq a.given)) =>
             /\ handled'.reply = "bad-arguments"
             /\ UNCHANGED <<watchCallbacks, pc, mu, onceCalls, pathLoop, issued,
                            adds, osWatch>>]_vars

\* A Copy request with srcPath and without dstPath was rejected while a
\* path is handed to the OS watcher.
C16_Witness ==
  /\ handled.handler = "Copy"
  /\ handled.args = [decodes |-> TRUE, given |-> {"srcPath"}]
  /\ handled.reply = "bad-arguments"
  /\ issued # {}

\* C17: whenever the registry mutex is held it is released later.
C17_MutexEventuallyReleased == mu ~> ~mu

====
